---- MODULE Spec2Model ----
(***************************************************************************)
(* Model of srcs/db/protocols.py: the Protocol document class (field       *)
(* resolution, type-aware mutation, create, check and to_dict) and the     *)
(* Protocols collection class (resolution by name or alias, add, delete,   *)
(* check).  Spec is the collection, RecSpec the mutation of one document,  *)
(* CreateSpec its construction and serialisation.                          *)
(*                                                                         *)
(* A string is a sequence of one-character strings, so that lower-casing   *)
(* and containment are computed.  A value (Python object stored in a       *)
(* field) is [isList, xs]: a scalar string s is [isList |-> FALSE,         *)
(* xs |-> <<s>>], a list is [isList |-> TRUE, xs |-> the elements].        *)
(***************************************************************************)
EXTENDS Integers, Sequences, FiniteSets, TLC

VARIABLES store, res, mem, doc, rres

vars == <<store, res, mem, doc, rres>>

(***************************************************************************)
(* Bounds.                                                                 *)
(***************************************************************************)
MaxDocs == 3

\* The longest list a field may hold (longer results are not explored).
MaxList == 3

(***************************************************************************)
(* Strings and values.                                                     *)
(***************************************************************************)
EmptyStr == <<>>

LowerChar(c) ==
    CASE c = "T" -> "t"
      [] c = "C" -> "c"
      [] c = "L" -> "l"
      [] c = "A" -> "a"
      [] c = "B" -> "b"
      [] c = "S" -> "s"
      [] OTHER -> c

LowerStr(s) == [i \in 1..Len(s) |-> LowerChar(s[i])]

Contains(hay, needle) ==
    \E i \in 0..(Len(hay) - Len(needle)) :
        SubSeq(hay, i + 1, i + Len(needle)) = needle

Scalar(s) == [isList |-> FALSE, xs |-> <<s>>]

List(xs) == [isList |-> TRUE, xs |-> xs]

\* [v] if not isinstance(v, list) else v
AsList(v) == v.xs

(***************************************************************************)
(* The shared search primitives (db/__init__.py).                          *)
(***************************************************************************)
\* exact_search(needle, haystack): some candidate equals the needle,
\* case-insensitively.
ExactSearch(needle, haystack) ==
    \E i \in 1..Len(haystack) : LowerStr(haystack[i]) = LowerStr(needle)

ContainsCI(candidate, needle) == Contains(LowerStr(candidate), LowerStr(needle))

\* search(needle, haystack): the exact candidate alone when there is one,
\* otherwise every candidate that contains the needle.
Search(needle, haystack) ==
    IF ExactSearch(needle, haystack)
    THEN <<haystack[CHOOSE i \in 1..Len(haystack) :
                /\ LowerStr(haystack[i]) = LowerStr(needle)
                /\ \A j \in 1..(i - 1) : LowerStr(haystack[j]) # LowerStr(needle)]>>
    ELSE SelectSeq(haystack, LAMBDA c : ContainsCI(c, needle))

(***************************************************************************)
(* Protocols (the collection).                                             *)
(***************************************************************************)
ERR_UNKPROTO == "UnknownProtocol"
ERR_EXIPROTO == "AlreadyExists"
ERR_MULTIMATCH == "AmbiguousMatch"
ERR_MANDFIELD == "MissingMandatoryField"

\* Protocols.get.all_names
AllNames(protocol) ==
    <<protocol.name>> \o
        (IF "alias" \in DOMAIN protocol THEN AsList(protocol.alias) ELSE <<>>)

\* The scan loop with the break of line 171 left out: an exact match is
\* accumulated like any other.
RECURSIVE GetScanNoBreak(_, _, _, _)
GetScanNoBreak(all, protocol_name, i, match) ==
    IF i > Len(all) THEN match
    ELSE IF Search(protocol_name, AllNames(all[i])) # <<>>
         THEN GetScanNoBreak(all, protocol_name, i + 1, Append(match, all[i]))
         ELSE GetScanNoBreak(all, protocol_name, i + 1, match)

\* The scan loop of Protocols.get over self.all, from document i on, with the
\* matches accumulated so far.
RECURSIVE GetScan(_, _, _, _)
GetScan(all, protocol_name, i, match) ==
    IF i > Len(all) THEN match
    ELSE IF ExactSearch(protocol_name, AllNames(all[i])) THEN <<all[i]>>
    ELSE IF Search(protocol_name, AllNames(all[i])) # <<>>
         THEN GetScan(all, protocol_name, i + 1, Append(match, all[i]))
         ELSE GetScan(all, protocol_name, i + 1, match)

\* [x.name for x in match]
MatchNames(match) == [i \in 1..Len(match) |-> match[i].name]

\* Protocols.get returning the first match whenever there is one.
GetFirstMatch(all, protocol_name) ==
    LET match == GetScan(all, protocol_name, 1, <<>>)
    IN  IF Len(match) >= 1
        THEN [kind |-> "ok", match |-> <<match[1]>>, names |-> <<>>]
        ELSE [kind |-> ERR_UNKPROTO, match |-> <<>>, names |-> <<>>]

\* Protocols.get: the record found (match, of length 1), or the error raised
\* (with the names the message lists).
Get(all, protocol_name) ==
    LET match == GetScan(all, protocol_name, 1, <<>>)
    IN  IF Len(match) = 1 THEN [kind |-> "ok", match |-> match, names |-> <<>>]
        ELSE IF Len(match) > 1
        THEN [kind |-> ERR_MULTIMATCH, match |-> <<>>, names |-> MatchNames(match)]
        ELSE [kind |-> ERR_UNKPROTO, match |-> <<>>, names |-> <<>>]

\* delete_one({name: n}): the first document with that name is removed.
RECURSIVE DeleteOne(_, _)
DeleteOne(all, n) ==
    IF all = <<>> THEN <<>>
    ELSE IF Head(all).name = n THEN Tail(all)
    ELSE <<Head(all)>> \o DeleteOne(Tail(all), n)

\* Protocols.add without the lookup: the document is always inserted.
AddNoLookup(all, protocol) ==
    [kind |-> "ok", all |-> Append(all, protocol), calls |-> <<"insert_one">>]

\* Protocols.add: [kind, all, calls] after the call.  The except clause
\* takes every DBException of get, so the insert follows any failed lookup.
\* The document inserted is protocol.to_dict(): here the protocol's name and
\* alias, the fields a lookup reads.
AddResult(all, protocol) ==
    IF Get(all, protocol.name).kind = "ok"
    THEN [kind |-> ERR_EXIPROTO, all |-> all, calls |-> <<>>]
    ELSE [kind |-> "ok", all |-> Append(all, protocol), calls |-> <<"insert_one">>]

\* Protocols.delete removing the record that get returned instead of the one
\* named by the argument.
DeleteResolved(all, protocol) ==
    LET g == Get(all, protocol.name)
    IN  IF g.kind # "ok"
        THEN [kind |-> g.kind, all |-> all, calls |-> <<>>]
        ELSE [kind |-> "ok", all |-> DeleteOne(all, g.match[1].name),
              calls |-> <<"delete_one">>]

\* Protocols.delete: [kind, all, calls] after the call.
DeleteResult(all, protocol) ==
    LET g == Get(all, protocol.name)
    IN  IF g.kind # "ok"
        THEN [kind |-> g.kind, all |-> all, calls |-> <<>>]
        ELSE [kind |-> "ok", all |-> DeleteOne(all, protocol.name),
              calls |-> <<"delete_one">>]

\* The code point of a character, for the comparison of strings.
Ord(c) ==
    CASE c = "a" -> 97
      [] c = "b" -> 98
      [] c = "c" -> 99
      [] c = "l" -> 108
      [] c = "s" -> 115
      [] c = "t" -> 116
      [] c = "A" -> 65
      [] c = "B" -> 66
      [] c = "C" -> 67
      [] c = "L" -> 76
      [] c = "S" -> 83
      [] c = "T" -> 84
      [] OTHER -> 0

\* s < t on strings: the order of sorted().
RECURSIVE StrLess(_, _)
StrLess(s, t) ==
    IF t = <<>> THEN FALSE
    ELSE IF s = <<>> THEN TRUE
    ELSE IF Ord(Head(s)) # Ord(Head(t)) THEN Ord(Head(s)) < Ord(Head(t))
    ELSE StrLess(Tail(s), Tail(t))

\* sorted() is stable: x goes behind every element whose key is not greater.
RECURSIVE InsertSorted(_, _)
InsertSorted(sorted, x) ==
    IF sorted = <<>> THEN <<x>>
    ELSE IF StrLess(LowerStr(x.name), LowerStr(Head(sorted).name))
         THEN <<x>> \o sorted
         ELSE <<Head(sorted)>> \o InsertSorted(Tail(sorted), x)

\* Protocols.all_as_objects: the documents sorted by x.name.lower().
RECURSIVE AllAsObjects(_)
AllAsObjects(all) ==
    IF all = <<>> THEN <<>>
    ELSE InsertSorted(AllAsObjects(SubSeq(all, 1, Len(all) - 1)), all[Len(all)])

\* The mandatory fields (p.FIELDS) a document of the collection carries.
DocFields == <<"name", "alias">>

\* The mandatory fields the object built from a document lacks, in the order
\* of p.FIELDS.
DocMissing(protocol) == SelectSeq(DocFields, LAMBDA f : f \notin DOMAIN protocol)

\* str(dbe) for the DBException of Protocol.check: the field and the protocol
\* that ERR_MANDFIELD is formatted with.
CheckMessage(protocol) == [attr |-> DocMissing(protocol)[1], name |-> protocol.name]

\* Protocols.check where the exception of the first failing protocol reaches
\* the caller: nothing is yielded after it.
ProtocolsCheckRaise(all) ==
    LET failing == SelectSeq(AllAsObjects(all), LAMBDA d : DocMissing(d) # <<>>)
    IN  IF failing = <<>> THEN [kind |-> "ok", msgs |-> <<>>]
        ELSE [kind |-> ERR_MANDFIELD, msgs |-> <<>>]

\* Protocols.check: every message the generator yields, in order.
ProtocolsCheck(all) ==
    LET failing == SelectSeq(AllAsObjects(all), LAMBDA d : DocMissing(d) # <<>>)
    IN  [kind |-> "ok",
         msgs |-> [i \in 1..Len(failing) |-> CheckMessage(failing[i])]]

(***************************************************************************)
(* Inputs.                                                                 *)
(***************************************************************************)
\* Names given to get, add and delete: "t" and "T" are equal but for case, "t"
\* is contained in "tc" and in "ct", and neither of those contains the other.
NameSet == { <<"t">>, <<"T">>, <<"t", "c">>, <<"c", "t">> }

QuerySet == NameSet \cup { <<"c">> }

\* Protocol objects given to add: without alias, with a string alias (the
\* empty string that Protocol.__fill leaves, or a name), with a list alias.
ProtocolInputs ==
    { [name |-> n] : n \in NameSet } \cup
    { [name |-> <<"t", "c">>, alias |-> Scalar(EmptyStr)],
      [name |-> <<"t", "c">>, alias |-> Scalar(<<"c">>)],
      [name |-> <<"c", "t">>, alias |-> List(<< <<"T">> >>)] }

(***************************************************************************)
(* The collection as a state machine.                                      *)
(***************************************************************************)
NoCall == [op |-> "none", arg |-> [name |-> EmptyStr], kind |-> "ok",
           match |-> <<>>, names |-> <<>>, pre |-> <<>>, calls |-> <<>>]

Init ==
    /\ store = <<>>
    /\ res = NoCall
    /\ mem = <<>>
    /\ doc = <<>>
    /\ rres = <<>>

Resolve ==
    \E n \in QuerySet :
        LET g == Get(store, n)
        IN  /\ res' = [op |-> "get", arg |-> [name |-> n], kind |-> g.kind,
                       match |-> g.match, names |-> g.names, pre |-> store,
                       calls |-> <<>>]
            /\ UNCHANGED <<store, mem, doc, rres>>

Add ==
    \E p \in ProtocolInputs :
        LET r == AddResult(store, p)
        IN  /\ Len(r.all) <= MaxDocs
            /\ store' = r.all
            /\ res' = [op |-> "add", arg |-> p, kind |-> r.kind,
                       match |-> <<>>, names |-> <<>>, pre |-> store,
                       calls |-> r.calls]
            /\ UNCHANGED <<mem, doc, rres>>

Delete ==
    \E n \in QuerySet :
        LET r == DeleteResult(store, [name |-> n])
        IN  /\ store' = r.all
            /\ res' = [op |-> "delete", arg |-> [name |-> n], kind |-> r.kind,
                       match |-> <<>>, names |-> <<>>, pre |-> store,
                       calls |-> r.calls]
            /\ UNCHANGED <<mem, doc, rres>>

CheckAll ==
    LET c == ProtocolsCheck(store)
    IN  /\ res' = [op |-> "check", arg |-> [name |-> EmptyStr], kind |-> c.kind,
                   match |-> <<>>, names |-> <<>>, pre |-> store,
                   calls |-> <<>>, msgs |-> c.msgs]
        /\ UNCHANGED <<store, mem, doc, rres>>

Next == Resolve \/ Add \/ Delete \/ CheckAll

Spec == Init /\ [][Next]_vars

(***************************************************************************)
(* Protocol (one document).  The attributes of the object are a sequence   *)
(* of [k, v] entries in the order of their creation (self.__dict__); the   *)
(* stored document is a sequence of entries too.                           *)
(***************************************************************************)
ERR_UNKFIELD == "UnknownField"
ERR_EXIVALUE == "DuplicateValue"
ERR_STORE == "StoreError"

FName == <<"n">>
FListA == <<"l", "a">>
\* A list field whose name contains the name of FListA.
FListB == <<"l", "a", "b">>
FScalar == <<"s">>

\* p.TYPE(field) in (types.LINKLIST, types.LIST, types.PKTLIST)
IsListType(field) == field \in {FListA, FListB}

\* Protocol.fields
Fields(attrs) == [i \in 1..Len(attrs) |-> attrs[i].k]

HasAttr(attrs, k) == \E i \in 1..Len(attrs) : attrs[i].k = k

\* getattr(self, k)
GetAttr(attrs, k) == attrs[CHOOSE i \in 1..Len(attrs) : attrs[i].k = k].v

\* setattr(self, k, v)
SetAttr(attrs, k, v) ==
    IF HasAttr(attrs, k)
    THEN [i \in 1..Len(attrs) |->
            IF attrs[i].k = k THEN [k |-> k, v |-> v] ELSE attrs[i]]
    ELSE Append(attrs, [k |-> k, v |-> v])

\* update_one({"name": name}, {"$set": {field: value}}) on the stored document
UpdateOne(document, name, field, value) ==
    IF HasAttr(document, FName) /\ GetAttr(document, FName) = name
    THEN SetAttr(document, field, value)
    ELSE document

\* Python truth of a value: a non-empty string or a non-empty list.
Truthy(v) == IF v.isList THEN v.xs # <<>> ELSE v.xs[1] # EmptyStr

\* value in oldvalue, for a list oldvalue of strings: a list is never a member.
IsIn(value, oldvalue) ==
    /\ ~value.isList
    /\ \E i \in 1..Len(oldvalue) : oldvalue[i] = value.xs[1]

\* [x for x in xs if x != '']
DropEmpty(xs) == SelectSeq(xs, LAMBDA x : x # EmptyStr)

\* Protocol.get taking the first match when several fields match.
RecGetFirst(attrs, field) ==
    LET match == Search(field, Fields(attrs))
    IN  IF Len(match) >= 1
        THEN [kind |-> "ok", field |-> match[1],
              value |-> GetAttr(attrs, match[1]), names |-> <<match[1]>>]
        ELSE [kind |-> ERR_UNKFIELD, field |-> field,
              value |-> Scalar(EmptyStr), names |-> <<>>]

\* Protocol.get: the field's name and value, or the error raised (names: the
\* field found, or the candidates the message of ERR_MULTIMATCH lists).
RecGet(attrs, field) ==
    LET match == Search(field, Fields(attrs))
    IN  IF Len(match) = 1
        THEN [kind |-> "ok", field |-> match[1],
              value |-> GetAttr(attrs, match[1]), names |-> match]
        ELSE IF Len(match) > 1
        THEN [kind |-> ERR_MULTIMATCH, field |-> field,
              value |-> Scalar(EmptyStr), names |-> match]
        ELSE [kind |-> ERR_UNKFIELD, field |-> field,
              value |-> Scalar(EmptyStr), names |-> <<>>]

\* Lines 64-73 without the filter of line 69: empty strings are kept.
NewValueNoFilter(field, oldvalue, value, replace) ==
    IF IsListType(field)
    THEN IF ~replace /\ Truthy(oldvalue)
         THEN IF ~IsIn(value, AsList(oldvalue))
              THEN [kind |-> "ok",
                    value |-> List(AsList(oldvalue) \o AsList(value))]
              ELSE [kind |-> ERR_EXIVALUE, value |-> value]
         ELSE [kind |-> "ok", value |-> List(AsList(value))]
    ELSE [kind |-> "ok", value |-> value]

\* Lines 64-73 with replace ignored at line 65: a non-empty field is always
\* appended to.
NewValueAlwaysMerge(field, oldvalue, value, replace) ==
    IF IsListType(field)
    THEN IF Truthy(oldvalue)
         THEN IF ~IsIn(value, AsList(oldvalue))
              THEN [kind |-> "ok",
                    value |-> List(DropEmpty(AsList(oldvalue) \o AsList(value)))]
              ELSE [kind |-> ERR_EXIVALUE, value |-> value]
         ELSE [kind |-> "ok", value |-> List(AsList(value))]
    ELSE [kind |-> "ok", value |-> value]

\* Lines 64-73 of Protocol.set: the value to store, or the error raised.
NewValue(field, oldvalue, value, replace) ==
    IF IsListType(field)
    THEN IF ~replace /\ Truthy(oldvalue)
         THEN IF ~IsIn(value, AsList(oldvalue))
              THEN [kind |-> "ok",
                    value |-> List(DropEmpty(AsList(oldvalue) \o AsList(value)))]
              ELSE [kind |-> ERR_EXIVALUE, value |-> value]
         ELSE [kind |-> "ok", value |-> List(AsList(value))]
    ELSE [kind |-> "ok", value |-> value]

Event(e, k, v) == [e |-> e, k |-> k, v |-> v]

\* Protocol.set with lines 77 and 78 exchanged: the attribute is assigned
\* before the store is updated.
RecSetAttrFirst(st, field, value, replace, storeOk) ==
    LET g == RecGet(st.mem, field)
        nv == NewValue(g.field, g.value, value, replace)
        assigned == [st EXCEPT !.mem = SetAttr(@, g.field, nv.value),
                               !.trace = Append(@, Event("setattr", g.field, nv.value))]
    IN  IF g.kind # "ok" THEN [st EXCEPT !.kind = g.kind, !.names = g.names]
        ELSE IF nv.kind # "ok" THEN [st EXCEPT !.kind = nv.kind]
        ELSE IF ~storeOk
        THEN [assigned EXCEPT !.kind = ERR_STORE,
                !.trace = Append(@, Event("update_one_failed", g.field, nv.value))]
        ELSE [assigned EXCEPT
                !.doc = UpdateOne(@, GetAttr(st.mem, FName), g.field, nv.value),
                !.trace = Append(@, Event("update_one", g.field, nv.value))]

\* Protocol.set on the state st = [mem, doc, trace]: the state after the
\* call and the error raised, if any.  The trace lists, in order, the store
\* updates issued and the attributes assigned.  storeOk: update_one returns
\* (otherwise it raises, and set stops there).
RecSet(st, field, value, replace, storeOk) ==
    LET g == RecGet(st.mem, field)
        nv == NewValue(g.field, g.value, value, replace)
    IN  IF g.kind # "ok" THEN [st EXCEPT !.kind = g.kind, !.names = g.names]
        ELSE IF nv.kind # "ok" THEN [st EXCEPT !.kind = nv.kind]
        ELSE IF ~storeOk
        THEN [st EXCEPT !.kind = ERR_STORE,
                        !.trace = Append(@, Event("update_one_failed", g.field, nv.value))]
        ELSE [mem |-> SetAttr(st.mem, g.field, nv.value),
              doc |-> UpdateOne(st.doc, GetAttr(st.mem, FName), g.field, nv.value),
              trace |-> st.trace \o <<Event("update_one", g.field, nv.value),
                                      Event("setattr", g.field, nv.value)>>,
              kind |-> "ok", names |-> <<>>]

\* Protocol.add
RecAdd(st, field, value, storeOk) ==
    RecSet([st EXCEPT !.mem = SetAttr(@, field, value),
                      !.trace = Append(@, Event("setattr", field, value))],
           field, value, FALSE, storeOk)

\* Protocol.append
RecAppend(st, field, value, storeOk) ==
    LET g == RecGet(st.mem, field)
        oldvalue == AsList(g.value)
    IN  IF g.kind # "ok" THEN [st EXCEPT !.kind = g.kind, !.names = g.names]
        ELSE IF ~IsIn(value, oldvalue)
        THEN RecSet(st, field, List(DropEmpty(oldvalue \o AsList(value))),
                    FALSE, storeOk)
        ELSE [st EXCEPT !.kind = ERR_EXIVALUE]

(***************************************************************************)
(* Inputs of the document's operations.                                    *)
(***************************************************************************)
StrA == <<"a">>
StrB == <<"b">>

\* The record the operations act on, as created and stored: a name, the list
\* field FListA (empty as Protocol.__fill leaves it, or a list without
\* duplicates) and the scalar field FScalar.
RecordInputs ==
    { << [k |-> FName, v |-> Scalar(<<"p">>)],
         [k |-> FListA, v |-> la],
         [k |-> FScalar, v |-> Scalar(EmptyStr)] >> :
      la \in { Scalar(EmptyStr), List(<<StrA>>), List(<<StrA, StrB>>) } }

ValueInputs ==
    { Scalar(EmptyStr), Scalar(StrA), Scalar(StrB), List(<<StrA, EmptyStr>>) }

\* Field names given to get: a field's name as it is and in another case, a
\* part of the names of the list fields, of no field, the fields themselves.
FieldInputs ==
    { FListA, <<"L", "A">>, <<"L">>, <<"z">>, FListB, FScalar, FName }

\* (field, value) arguments of set: the list field by its name with every
\* value; "L", contained, but for case, in the names of the list fields and
\* of no other; "z", contained in no field's name; the scalar field; the
\* name.
SetInputs ==
    ({FListA} \X ValueInputs) \cup
    { <<(<<"L">>), Scalar(StrB)>>, <<(<<"z">>), Scalar(StrA)>>,
      <<FScalar, Scalar(StrA)>>, <<FScalar, Scalar(StrB)>>,
      <<FName, Scalar(<<"q">>)>> }

\* (field, value) arguments of append.
AppendInputs ==
    ({FListA} \X ValueInputs) \cup
    { <<(<<"L">>), Scalar(StrB)>>, <<(<<"z">>), Scalar(StrA)>> }

\* (field, value) arguments of add: a field the record has, and a field of
\* the schema it does not have yet.
AddInputs ==
    { <<FListA, Scalar(StrA)>>, <<FListB, Scalar(EmptyStr)>>,
      <<FListB, Scalar(StrA)>>, <<FListB, List(<<StrA, EmptyStr>>)>> }

(***************************************************************************)
(* The document as a state machine.                                        *)
(***************************************************************************)
NoRecCall == [op |-> "none", field |-> EmptyStr, value |-> Scalar(EmptyStr),
              replace |-> FALSE, kind |-> "ok", names |-> <<>>, trace |-> <<>>,
              mem |-> <<>>, doc |-> <<>>]

RecInit ==
    /\ store = <<>>
    /\ res = NoCall
    /\ mem \in RecordInputs
    /\ doc = mem
    /\ rres = NoRecCall

\* Every list the attributes hold is within the bound.
WithinBound(attrs) ==
    \A i \in 1..Len(attrs) : Len(attrs[i].v.xs) <= MaxList

Start == [mem |-> mem, doc |-> doc, trace |-> <<>>, kind |-> "ok", names |-> <<>>]

\* A call is made when the outcome of the one before has been taken.
Called(op, field, value, replace, st) ==
    /\ rres.op = "none"
    /\ WithinBound(st.mem)
    /\ mem' = st.mem
    /\ doc' = st.doc
    /\ rres' = [op |-> op, field |-> field, value |-> value, replace |-> replace,
                kind |-> st.kind, names |-> st.names, trace |-> st.trace,
                mem |-> mem, doc |-> doc]
    /\ UNCHANGED <<store, res>>

SetField ==
    \E fv \in SetInputs, replace, storeOk \in BOOLEAN :
        Called("set", fv[1], fv[2], replace,
               RecSet(Start, fv[1], fv[2], replace, storeOk))

AddField ==
    \E fv \in AddInputs, storeOk \in BOOLEAN :
        Called("add", fv[1], fv[2], FALSE, RecAdd(Start, fv[1], fv[2], storeOk))

AppendField ==
    \E fv \in AppendInputs, storeOk \in BOOLEAN :
        Called("append", fv[1], fv[2], FALSE,
               RecAppend(Start, fv[1], fv[2], storeOk))

\* Protocol.get called by the user of the record: the value recorded is the
\* one returned, the names are the field found or the candidates.
ResolveField ==
    \E field \in FieldInputs :
        LET g == RecGet(mem, field)
        IN  /\ rres.op = "none"
            /\ rres' = [op |-> "get", field |-> field, value |-> g.value,
                        replace |-> FALSE, kind |-> g.kind, names |-> g.names,
                        trace |-> <<>>, mem |-> mem, doc |-> doc]
            /\ UNCHANGED <<store, res, mem, doc>>

\* set(field, value, replace=True) called a second time, right after it
\* returned, with the same arguments.
SetAgain ==
    \E storeOk \in BOOLEAN :
        LET st == RecSet(Start, rres.field, rres.value, TRUE, storeOk)
        IN  /\ rres.op = "set"
            /\ rres.replace
            /\ rres.kind = "ok"
            /\ mem' = st.mem
            /\ doc' = st.doc
            /\ rres' = [op |-> "set again", field |-> rres.field,
                        value |-> rres.value, replace |-> TRUE, kind |-> st.kind,
                        names |-> st.names, trace |-> st.trace,
                        mem |-> mem, doc |-> doc]
            /\ UNCHANGED <<store, res>>

\* The caller takes the outcome of the call (what was returned or raised).
Return ==
    /\ rres.op # "none"
    /\ rres' = NoRecCall
    /\ UNCHANGED <<store, res, mem, doc>>

RecNext ==
    SetField \/ AddField \/ AppendField \/ ResolveField \/ SetAgain \/ Return

RecSpec == RecInit /\ [][RecNext]_vars

(***************************************************************************)
(* Protocol: construction, create (fill and check), check and to_dict.     *)
(***************************************************************************)
ERR_ATTRIBUTE == "AttributeError"

\* mongodb.id: the identifier the store gives a document.
FId == <<"_", "i", "d">>

\* mongodb.obj: the attribute that holds the database object.
FObj == <<"_", "d", "b">>

\* p.FIELDS: the mandatory fields, in the order of the schema.
MandatoryFields == <<FName, FListA, FScalar>>

\* The keys of p.ALL_FIELDS: the mandatory fields and the optional one.
AllFields == MandatoryFields \o <<FListB>>

\* Document.__init__: the object holds the database object and nothing else.
NewObject == << [k |-> FObj, v |-> Scalar(<<"d", "b">>)] >>

\* for k, v in kwargs.items(): setattr(self, k, v)
RECURSIVE SetAll(_, _)
SetAll(attrs, kwargs) ==
    IF kwargs = <<>> THEN attrs
    ELSE SetAll(SetAttr(attrs, Head(kwargs).k, Head(kwargs).v), Tail(kwargs))

\* The loop of Protocol.__fill over the given fields: an absent attribute is
\* set to the empty string.
RECURSIVE Fill(_, _)
Fill(attrs, fields) ==
    IF fields = <<>> THEN attrs
    ELSE Fill(IF HasAttr(attrs, Head(fields)) THEN attrs
              ELSE SetAttr(attrs, Head(fields), Scalar(EmptyStr)),
              Tail(fields))

\* Protocol.__check: what is raised, and the field the message names.  The
\* message is formatted with self.name, so without the attribute name the
\* formatting raises AttributeError before a DBException exists.
RecCheck(attrs) ==
    LET missing == SelectSeq(MandatoryFields, LAMBDA f : ~HasAttr(attrs, f))
    IN  IF missing = <<>> THEN [kind |-> "ok", field |-> EmptyStr]
        ELSE IF HasAttr(attrs, FName)
        THEN [kind |-> ERR_MANDFIELD, field |-> missing[1]]
        ELSE [kind |-> ERR_ATTRIBUTE, field |-> FName]

\* Protocol.create: the attributes afterwards and what __check raised.
RecCreate(attrs, kwargs) ==
    LET filled == Fill(SetAll(attrs, kwargs), AllFields)
    IN  [mem |-> filled, kind |-> RecCheck(filled).kind]

\* Protocol.to_dict without the test of line 106: every field is copied.
ToDictAll(attrs, exclude_id) ==
    SelectSeq(attrs, LAMBDA e : ~(exclude_id /\ e.k = FId))

\* Protocol.to_dict: the entries of the dictionary, in the order of the
\* fields.
ToDict(attrs, exclude_id) ==
    SelectSeq(attrs, LAMBDA e : ~(exclude_id /\ e.k = FId) /\ e.k # FObj)

\* Keyword arguments given to Protocol(...) and to create(...).
KwargsInputs ==
    { <<>>,
      << [k |-> FName, v |-> Scalar(<<"p">>)] >>,
      << [k |-> FListA, v |-> List(<<StrA>>)] >>,
      << [k |-> FScalar, v |-> Scalar(StrA)] >>,
      << [k |-> FName, v |-> Scalar(<<"p">>)], [k |-> FListA, v |-> List(<<StrA>>)] >>,
      << [k |-> FName, v |-> Scalar(<<"p">>)], [k |-> FId, v |-> Scalar(<<"i">>)] >>,
      << [k |-> FId, v |-> Scalar(<<"i">>)], [k |-> FName, v |-> Scalar(<<"p">>)],
         [k |-> FListA, v |-> List(<<StrA>>)], [k |-> FScalar, v |-> Scalar(StrB)],
         [k |-> FListB, v |-> List(<<StrB>>)] >>,
      << [k |-> FName, v |-> Scalar(<<"p">>)], [k |-> <<"z">>, v |-> Scalar(StrA)] >>,
      << [k |-> FListA, v |-> Scalar(StrA)], [k |-> FScalar, v |-> Scalar(StrB)] >>,
      << [k |-> FName, v |-> Scalar(<<"q">>)], [k |-> FScalar, v |-> Scalar(EmptyStr)],
         [k |-> FListB, v |-> List(<<StrA, StrB>>)] >> }

NoCreateCall == [op |-> "none", kwargs |-> <<>>, kind |-> "ok", field |-> EmptyStr,
                 dict |-> <<>>, exclude |-> FALSE, mem |-> <<>>]

CreateInit ==
    /\ store = <<>>
    /\ res = NoCall
    /\ mem = NewObject
    /\ doc = <<>>
    /\ rres = NoCreateCall

\* Protocol(**kwargs)
Construct ==
    \E kwargs \in KwargsInputs :
        /\ mem' = SetAll(NewObject, kwargs)
        /\ rres' = [NoCreateCall EXCEPT !.op = "init", !.kwargs = kwargs]
        /\ UNCHANGED <<store, res, doc>>

\* Protocol().create(**kwargs)
Create ==
    \E kwargs \in KwargsInputs :
        LET c == RecCreate(NewObject, kwargs)
        IN  /\ mem' = c.mem
            /\ rres' = [NoCreateCall EXCEPT !.op = "create", !.kwargs = kwargs,
                                            !.kind = c.kind]
            /\ UNCHANGED <<store, res, doc>>

\* Protocol.check on the object
Check ==
    /\ rres' = [NoCreateCall EXCEPT !.op = "check", !.kind = RecCheck(mem).kind,
                                    !.field = RecCheck(mem).field, !.mem = mem]
    /\ UNCHANGED <<store, res, mem, doc>>

\* Protocol.to_dict on the object
ToDictCall ==
    \E exclude_id \in BOOLEAN :
        /\ rres' = [NoCreateCall EXCEPT !.op = "to_dict", !.exclude = exclude_id,
                                        !.dict = ToDict(mem, exclude_id),
                                        !.mem = mem]
        /\ UNCHANGED <<store, res, mem, doc>>

\* Protocol().create(**d) with the dictionary d that to_dict just returned:
\* the new object replaces the one it was made from.
Recreate ==
    LET c == RecCreate(NewObject, rres.dict)
    IN  /\ rres.op = "to_dict"
        /\ mem' = c.mem
        /\ rres' = [rres EXCEPT !.op = "recreate", !.kind = c.kind]
        /\ UNCHANGED <<store, res, doc>>

CreateNext == Construct \/ Create \/ Check \/ ToDictCall \/ Recreate

CreateSpec == CreateInit /\ [][CreateNext]_vars

(***************************************************************************)
(* Claims about the collection.  The helpers below restate, for a          *)
(* document and a query, what "exact" and "fuzzy" mean.                    *)
(***************************************************************************)
\* Document d has a name or alias equal to q, case-insensitively.
IsExact(d, q) ==
    \E k \in 1..Len(AllNames(d)) : LowerStr(AllNames(d)[k]) = LowerStr(q)

\* Document d has a name or alias that contains q, case-insensitively.
IsFuzzy(d, q) ==
    \E k \in 1..Len(AllNames(d)) :
        Contains(LowerStr(AllNames(d)[k]), LowerStr(q))

ExactIdx(all, q) == { i \in 1..Len(all) : IsExact(all[i], q) }

FuzzyDocs(all, q) == SelectSeq(all, LAMBDA d : IsFuzzy(d, q))

\* C1: get with exactly one stored record whose name or alias equals the
\* query case-insensitively returns that record, wherever it is in the scan
\* and whatever other records fuzzily match.
C1_UniqueExactIsReturned ==
    (res.op = "get" /\ Cardinality(ExactIdx(res.pre, res.arg.name)) = 1)
        => \A i \in ExactIdx(res.pre, res.arg.name) :
              /\ res.kind = "ok"
              /\ res.match = <<res.pre[i]>>

\* A get whose only exact match is scanned after a fuzzy, non-exact match.
C1_Witness ==
    /\ res.op = "get"
    /\ res.kind = "ok"
    /\ Cardinality(ExactIdx(res.pre, res.arg.name)) = 1
    /\ \E i \in ExactIdx(res.pre, res.arg.name) :
          \E j \in 1..(i - 1) :
              /\ IsFuzzy(res.pre[j], res.arg.name)
              /\ ~IsExact(res.pre[j], res.arg.name)

\* C2: get with no exact match: no fuzzy match fails with UnknownProtocol,
\* two or more fail with AmbiguousMatch listing exactly the names of the
\* fuzzily matching records, exactly one returns that record.
C2_FuzzyOutcome ==
    (res.op = "get" /\ ExactIdx(res.pre, res.arg.name) = {})
        => LET f == FuzzyDocs(res.pre, res.arg.name)
           IN  /\ Len(f) = 0 => res.kind = ERR_UNKPROTO
               /\ Len(f) >= 2 =>
                     /\ res.kind = ERR_MULTIMATCH
                     /\ res.names = [i \in 1..Len(f) |-> f[i].name]
               /\ Len(f) = 1 => (res.kind = "ok" /\ res.match = f)

\* An ambiguous get over a store that also holds a record that does not match.
C2_Witness ==
    /\ res.op = "get"
    /\ res.kind = ERR_MULTIMATCH
    /\ Len(res.names) = 2
    /\ Len(res.pre) = 3
    /\ ExactIdx(res.pre, res.arg.name) = {}

\* C3: add of a record whose name resolves (an exact match, or a single fuzzy
\* match) fails with AlreadyExists and inserts nothing; add of a record whose
\* name matches nothing inserts its dictionary form once.
C3_AddChecksExistence ==
    res.op = "add" =>
        LET q == res.arg.name
            f == FuzzyDocs(res.pre, q)
        IN  /\ (ExactIdx(res.pre, q) # {} \/ Len(f) = 1) =>
                  /\ res.kind = ERR_EXIPROTO
                  /\ res.calls = <<>>
                  /\ store = res.pre
            /\ (ExactIdx(res.pre, q) = {} /\ Len(f) = 0) =>
                  /\ res.kind = "ok"
                  /\ res.calls = <<"insert_one">>
                  /\ store = Append(res.pre, res.arg)

\* add("t") then add("T"): the second fails and one document is stored.
C3_Witness ==
    /\ res.op = "add"
    /\ res.arg.name = <<"T">>
    /\ res.kind = ERR_EXIPROTO
    /\ Len(store) = 1
    /\ store[1].name = <<"t">>

\* C4: add of a record whose name is ambiguous (two or more fuzzy matches, no
\* exact one) fails with AmbiguousMatch and inserts nothing.
C4_AmbiguityPropagates ==
    (/\ res.op = "add"
     /\ ExactIdx(res.pre, res.arg.name) = {}
     /\ Len(FuzzyDocs(res.pre, res.arg.name)) >= 2)
        => /\ res.kind = ERR_MULTIMATCH
           /\ res.calls = <<>>
           /\ store = res.pre

\* C5: no two stored documents have the same name.
C5_NamesUnique ==
    \A i, j \in 1..Len(store) : i # j => store[i].name # store[j].name

\* An add of a name that is stored was refused, with other documents stored.
C5_Witness ==
    /\ res.op = "add"
    /\ res.kind = ERR_EXIPROTO
    /\ Len(store) >= 2
    /\ \E i \in 1..Len(store) : store[i].name = res.arg.name

\* C6: delete of a record whose name is the name of no stored document fails
\* with UnknownProtocol and issues no delete call.
C6_DeleteAbsentFails ==
    (/\ res.op = "delete"
     /\ \A i \in 1..Len(res.pre) : res.pre[i].name # res.arg.name)
        => /\ res.kind = ERR_UNKPROTO
           /\ res.calls = <<>>

(***************************************************************************)
(* Claims about the document.                                              *)
(***************************************************************************)
\* No element occurs twice in the value.
DupFree(v) == \A i, j \in 1..Len(v.xs) : i # j => v.xs[i] # v.xs[j]

\* Every list-typed field of the attributes holds a value without duplicates.
ListsDupFree(attrs) ==
    \A i \in 1..Len(attrs) : IsListType(attrs[i].k) => DupFree(attrs[i].v)

\* The value is a list none of whose elements is the empty string.
ListWithoutEmpty(v) ==
    v.isList /\ \A i \in 1..Len(v.xs) : v.xs[i] # EmptyStr

\* The field a successful call has written: that of its last assignment.
Written == rres.trace[Len(rres.trace)].k

\* Every assignment of an attribute in the trace follows a store update of
\* the same field.
StoreFirst(trace) ==
    \A i \in 1..Len(trace) :
        trace[i].e = "setattr" =>
            \E j \in 1..(i - 1) :
                trace[j].e = "update_one" /\ trace[j].k = trace[i].k

\* C7: append of a scalar v # "" to a list field holding the non-empty
\* duplicate-free list S: a member of S is refused with DuplicateValue,
\* otherwise the field holds S followed by v, in memory and in the store.
C7_AppendAddsAtEnd ==
    (/\ rres.op = "append"
     /\ rres.field = FListA
     /\ rres.kind # ERR_STORE
     /\ GetAttr(rres.mem, FListA).isList
     /\ GetAttr(rres.mem, FListA).xs # <<>>
     /\ DupFree(GetAttr(rres.mem, FListA))
     /\ ~rres.value.isList
     /\ rres.value.xs[1] # EmptyStr)
        => LET S == GetAttr(rres.mem, FListA).xs
               v == rres.value.xs[1]
           IN  IF \E i \in 1..Len(S) : S[i] = v
               THEN rres.kind = ERR_EXIVALUE
               ELSE /\ rres.kind = "ok"
                    /\ GetAttr(mem, FListA) = List(Append(S, v))
                    /\ GetAttr(doc, FListA) = List(Append(S, v))

\* C8: a call of set with replace = false, of append or of add on a record
\* whose list-typed fields hold no duplicate leaves them without duplicates,
\* in memory and in the store.
C8_ListsStayDupFree ==
    (/\ rres.op \in {"set", "append", "add"}
     /\ ~rres.replace
     /\ ListsDupFree(rres.mem)
     /\ ListsDupFree(rres.doc))
        => (ListsDupFree(mem) /\ ListsDupFree(doc))

\* C9: after a successful set or append on a list-typed field, the field
\* holds no empty string, in memory and in the store.
C9_NoEmptyString ==
    (/\ rres.op \in {"set", "append"}
     /\ rres.kind = "ok"
     /\ IsListType(Written))
        => /\ ListWithoutEmpty(GetAttr(mem, Written))
           /\ ListWithoutEmpty(GetAttr(doc, Written))

\* C10, as claimed: in set, add and append the store update of a field comes
\* before the assignment of its attribute, and a failed call leaves the
\* attributes as they were.
C10_StoreBeforeMemory ==
    rres.op \in {"set", "add", "append"}
        => /\ StoreFirst(rres.trace)
           /\ rres.kind # "ok" => mem = rres.mem

\* C10, amended: set and append update the store before they assign the
\* attribute, and leave the attributes as they were when they fail; add
\* assigns the attribute first.
C10_StoreBeforeMemoryInSetAppend ==
    /\ rres.op \in {"set", "append"}
          => /\ StoreFirst(rres.trace)
             /\ rres.kind # "ok" => mem = rres.mem
    /\ rres.op = "add"
          => /\ rres.trace # <<>>
             /\ rres.trace[1] = Event("setattr", rres.field, rres.value)

\* A set or append that reached the store and whose update failed.
C10_Witness ==
    /\ rres.op \in {"set", "append"}
    /\ rres.kind = ERR_STORE
    /\ rres.trace # <<>>
    /\ rres.trace[Len(rres.trace)].e = "update_one_failed"

\* The value add is claimed to leave in a new field: the value as given in a
\* scalar field, the value as a list in a list field.
Introduced(field, value) ==
    IF IsListType(field) THEN List(AsList(value)) ELSE value

\* C11: add of a field the record does not have, and that no field's name
\* matches, succeeds, and the field then holds the value (as a list when the
\* field is list-typed), in memory and in the store.
C11_AddIntroducesField ==
    (/\ rres.op = "add"
     /\ rres.kind # ERR_STORE
     /\ ~HasAttr(rres.mem, rres.field)
     /\ \A i \in 1..Len(rres.mem) :
           ~Contains(LowerStr(rres.mem[i].k), LowerStr(rres.field)))
        => /\ rres.kind = "ok"
           /\ HasAttr(mem, rres.field)
           /\ GetAttr(mem, rres.field) = Introduced(rres.field, rres.value)
           /\ HasAttr(doc, rres.field)
           /\ GetAttr(doc, rres.field) = Introduced(rres.field, rres.value)

\* C14: set with replace = false of a scalar v on the list field holding the
\* non-empty list S fails with DuplicateValue when v is in S and otherwise
\* leaves S followed by v, without empty strings; set on the scalar field
\* leaves the value as given, whatever replace is.
C14_SetMergesOrStores ==
    /\ (/\ rres.op = "set"
         /\ rres.field = FListA
         /\ ~rres.replace
         /\ rres.kind # ERR_STORE
         /\ GetAttr(rres.mem, FListA).isList
         /\ GetAttr(rres.mem, FListA).xs # <<>>
         /\ ~rres.value.isList)
            => LET S == GetAttr(rres.mem, FListA).xs
                   v == rres.value.xs[1]
                   merged == List(SelectSeq(Append(S, v), LAMBDA x : x # EmptyStr))
               IN  IF \E i \in 1..Len(S) : S[i] = v
                   THEN rres.kind = ERR_EXIVALUE
                   ELSE /\ rres.kind = "ok"
                        /\ GetAttr(mem, FListA) = merged
                        /\ GetAttr(doc, FListA) = merged
    /\ (rres.op = "set" /\ rres.field = FScalar /\ rres.kind # ERR_STORE)
            => /\ rres.kind = "ok"
               /\ GetAttr(mem, FScalar) = rres.value
               /\ GetAttr(doc, FScalar) = rres.value

\* A set that appended a new scalar to a non-empty list holding an empty
\* string.
C14_Witness ==
    /\ rres.op = "set"
    /\ rres.field = FListA
    /\ ~rres.replace
    /\ rres.kind = "ok"
    /\ GetAttr(rres.mem, FListA).isList
    /\ \E i \in 1..Len(GetAttr(rres.mem, FListA).xs) :
          GetAttr(rres.mem, FListA).xs[i] = EmptyStr
    /\ ~rres.value.isList
    /\ rres.value.xs[1] # EmptyStr

\* The fields of the record whose name equals q, case-insensitively.
FieldsEqual(attrs, q) ==
    { attrs[i].k : i \in { j \in 1..Len(attrs) : LowerStr(attrs[j].k) = LowerStr(q) } }

\* The fields of the record whose name contains q, case-insensitively.
FieldsContaining(attrs, q) ==
    { attrs[i].k : i \in { j \in 1..Len(attrs) :
                              Contains(LowerStr(attrs[j].k), LowerStr(q)) } }

\* The fields that match q: the equal ones before the containing ones.
Candidates(attrs, q) ==
    IF FieldsEqual(attrs, q) # {} THEN FieldsEqual(attrs, q)
    ELSE FieldsContaining(attrs, q)

\* C15: get returns the name and the value of the only field that matches
\* (an equal name before a containing one), fails with UnknownField when no
\* field matches and with AmbiguousMatch, listing the candidates, when
\* several do; set and append fail in the same way.
C15_FieldResolution ==
    rres.op \in {"get", "set", "append"} =>
        LET c == Candidates(rres.mem, rres.field)
        IN  /\ c = {} => rres.kind = ERR_UNKFIELD
            /\ Cardinality(c) > 1 =>
                  /\ rres.kind = ERR_MULTIMATCH
                  /\ Len(rres.names) = Cardinality(c)
                  /\ { rres.names[i] : i \in 1..Len(rres.names) } = c
            /\ Cardinality(c) = 1 =>
                  /\ rres.kind \notin {ERR_UNKFIELD, ERR_MULTIMATCH}
                  /\ rres.op = "get" =>
                        \A k \in c :
                            /\ rres.kind = "ok"
                            /\ rres.names = <<k>>
                            /\ rres.value = GetAttr(rres.mem, k)

\* A get answered by the field of that name, in another case, while a second
\* field's name contains it.
C15_Witness ==
    /\ rres.op = "get"
    /\ rres.kind = "ok"
    /\ rres.field = <<"L", "A">>
    /\ rres.names = <<FListA>>
    /\ Cardinality(FieldsContaining(rres.mem, rres.field)) = 2

\* C16: set with replace = true, called again with the same arguments, does
\* not fail (unless the store does) and leaves the attributes and the stored
\* document as the first call left them.
C16_ReplaceIdempotent ==
    rres.op = "set again"
        => /\ rres.kind \in {"ok", ERR_STORE}
           /\ mem = rres.mem
           /\ doc = rres.doc

\* A second replacing set of a list field that held a value before both.
C16_Witness ==
    /\ rres.op = "set again"
    /\ rres.kind = "ok"
    /\ rres.field = FListA
    /\ Len(GetAttr(mem, FListA).xs) = 2

\* C18: a set, append or add that fails with UnknownField, AmbiguousMatch or
\* DuplicateValue has issued no store update and leaves every attribute as
\* it was.
C18_FailureChangesNothing ==
    (/\ rres.op \in {"set", "append", "add"}
     /\ rres.kind \in {ERR_UNKFIELD, ERR_MULTIMATCH, ERR_EXIVALUE})
        => /\ \A i \in 1..Len(rres.trace) :
                 rres.trace[i].e \notin {"update_one", "update_one_failed"}
           /\ mem = rres.mem
           /\ doc = rres.doc

\* The documents of the collection that lack a mandatory field.
Invalid(all) == { i \in 1..Len(all) : \E f \in {"name", "alias"} : f \notin DOMAIN all[i] }

\* C13: Protocols.check raises nothing and yields one message for each stored
\* document that lacks a mandatory field, none for the others, in ascending
\* order of the lower-cased names.
C13_CheckYieldsAll ==
    res.op = "check" =>
        /\ res.kind = "ok"
        /\ Len(res.msgs) = Cardinality(Invalid(res.pre))
        /\ \A i \in Invalid(res.pre) :
              Cardinality({ j \in 1..Len(res.msgs) :
                              res.msgs[j].name = res.pre[i].name }) = 1
        /\ \A j \in 1..Len(res.msgs) :
              \E i \in Invalid(res.pre) : res.msgs[j].name = res.pre[i].name
        /\ \A i, j \in 1..Len(res.msgs) :
              i < j => ~StrLess(LowerStr(res.msgs[j].name), LowerStr(res.msgs[i].name))

\* A check of three documents, stored in descending order of names, the first
\* and the last of which lack a mandatory field.
C13_Witness ==
    /\ res.op = "check"
    /\ Len(res.pre) = 3
    /\ Len(res.msgs) = 2
    /\ 2 \notin Invalid(res.pre)
    /\ StrLess(LowerStr(res.pre[3].name), LowerStr(res.pre[1].name))

\* The orders in which the store may return n documents.
Orders(n) == { f \in [1..n -> 1..n] : \A i, j \in 1..n : f[i] = f[j] => i = j }

\* C19: get gives the same outcome (the record returned, or the kind of the
\* error) for every order in which the store returns the documents.
C19_OrderIndependent ==
    res.op = "get" =>
        \A f \in Orders(Len(res.pre)) :
            LET g == Get([i \in 1..Len(res.pre) |-> res.pre[f[i]]], res.arg.name)
            IN  /\ g.kind = res.kind
                /\ g.match = res.match

\* C20: delete, whether it succeeds or fails, leaves every stored document
\* whose name is not exactly the argument's name in place and unchanged.
C20_DeleteFrame ==
    res.op = "delete" =>
        SelectSeq(store, LAMBDA d : d.name # res.arg.name)
            = SelectSeq(res.pre, LAMBDA d : d.name # res.arg.name)

\* A successful delete whose argument resolved, by alias or by containment,
\* to a record of another name: the delete was issued and the record stays.
C20_Witness ==
    /\ res.op = "delete"
    /\ res.kind = "ok"
    /\ res.calls = <<"delete_one">>
    /\ Get(res.pre, res.arg.name).match[1].name # res.arg.name
    /\ store = res.pre
    /\ Len(store) = 2

\* The first mandatory field, in the order of the schema, the attributes lack.
FirstAbsent(attrs) ==
    MandatoryFields[CHOOSE i \in 1..Len(MandatoryFields) :
        /\ ~HasAttr(attrs, MandatoryFields[i])
        /\ \A j \in 1..(i - 1) : HasAttr(attrs, MandatoryFields[j])]

\* C12: create returns a record that has every mandatory field, where the
\* fields given keep their values and the mandatory fields not given hold the
\* empty string, and that passes check; check on a record that lacks a
\* mandatory field fails with MissingMandatoryField naming the first one
\* absent in the order of the schema.
C12_CreateFillsCheckReports ==
    /\ rres.op = "create" =>
          /\ rres.kind = "ok"
          /\ RecCheck(mem).kind = "ok"
          /\ \A i \in 1..Len(MandatoryFields) : HasAttr(mem, MandatoryFields[i])
          /\ \A i \in 1..Len(rres.kwargs) :
                GetAttr(mem, rres.kwargs[i].k) = rres.kwargs[i].v
          /\ \A i \in 1..Len(MandatoryFields) :
                (\A j \in 1..Len(rres.kwargs) : rres.kwargs[j].k # MandatoryFields[i])
                    => GetAttr(mem, MandatoryFields[i]) = Scalar(EmptyStr)
    /\ rres.op = "check" =>
          IF \A i \in 1..Len(MandatoryFields) : HasAttr(mem, MandatoryFields[i])
          THEN rres.kind = "ok"
          ELSE /\ rres.kind = ERR_MANDFIELD
               /\ rres.field = FirstAbsent(mem)

\* The entries of the logical fields: every attribute but the identifier of
\* the store and the database object.
Logical(attrs) == { attrs[i] : i \in { j \in 1..Len(attrs) : attrs[j].k \notin {FId, FObj} } }

\* The record has been filled: every field of the schema is an attribute.
Filled(attrs) == \A i \in 1..Len(AllFields) : HasAttr(attrs, AllFields[i])

\* C17: the dictionary of to_dict holds neither the database object nor,
\* when it is excluded, the identifier; create applied to the dictionary of a
\* filled and valid record gives a record with the same logical fields and
\* the same value for each.
C17_RoundTrip ==
    /\ rres.op \in {"to_dict", "recreate"} =>
          \A i \in 1..Len(rres.dict) :
              /\ rres.dict[i].k # FObj
              /\ rres.exclude => rres.dict[i].k # FId
    /\ (rres.op = "recreate" /\ Filled(rres.mem) /\ RecCheck(rres.mem).kind = "ok")
          => /\ rres.kind = "ok"
             /\ Logical(mem) = Logical(rres.mem)

\* A filled record that holds an identifier and non-empty fields, recreated
\* from its dictionary without the identifier.
C17_Witness ==
    /\ rres.op = "recreate"
    /\ Filled(rres.mem)
    /\ rres.exclude
    /\ HasAttr(rres.mem, FId)
    /\ ~HasAttr(mem, FId)
    /\ GetAttr(mem, FListA) = List(<<StrA>>)

====
